---------------------------- MODULE Spec2Model ----------------------------
(***************************************************************************)
(* Model of the plugin download-history tools of obsidian-releases:        *)
(*   - the simple extractor   (src/unnamed/part_000, hard-wired plugin),   *)
(*   - the strict extractor   (src/extract-plugin-stats.js),               *)
(*   - the chart generator    (src/generate-download-chart.js).            *)
(* Each script is a sequential batch job.  A run is modelled as a state    *)
(* machine whose steps are the iterations of the script's loops; the git   *)
(* history the script reads (the commit list and the snapshot of the stats *)
(* file at every commit) is the input chosen in the initial state.         *)
(***************************************************************************)
EXTENDS Integers, Sequences, FiniteSets, TLC

VARIABLES
  prog,                 \* which script this run executes
  commits,              \* the parsed `git log` output, in log order
  pc,                   \* position in the script
  idx,                  \* loop index of the loop the script is in
  fetched,              \* hashes passed to `git show`, in call order
  log,                  \* the console lines (their kinds) so far: one per
                        \* commit processed, one per fatal error reported
  history,              \* simple extractor: the history array
  lastValidDownloads,   \* simple extractor
  foundFirstEntry,      \* simple extractor
  rawData,              \* strict extractor: first phase result
  validData,            \* strict extractor: second phase result
  skippedCount,         \* strict extractor
  historyObj,           \* strict extractor: the history object, as its
                        \* properties in insertion order
  previousDownloads,    \* strict extractor, third phase
  previousTimestamp,    \* strict extractor, third phase
  written,              \* whether fs.writeFileSync(outputFile, ...) ran
  outputFile,           \* what was written
  pluginData,           \* version extraction: the plugin record read
  versions,             \* version extraction: the version map of each script
  historicalData,       \* chart generator: the parsed history file
  dataPoints,           \* chart generator
  derivativeData,       \* chart generator
  rollingAverageData7Day,   \* chart generator
  rollingAverageData30Day,  \* chart generator
  versionReleases,      \* chart generator: the release markers
  htmlWritten,          \* whether fs.writeFileSync(outputHtmlFile, ...) ran
  args,                 \* process.argv.slice(2) of the strict extractor
  inputFileExists,      \* fs.existsSync(inputFile) of the chart generator
  exitCode              \* the status the process ends with

vars == <<prog, commits, pc, idx, fetched, log, history, lastValidDownloads,
          foundFirstEntry, rawData, validData, skippedCount, historyObj,
          previousDownloads, previousTimestamp, written, outputFile,
          pluginData, versions, historicalData, dataPoints, derivativeData,
          rollingAverageData7Day, rollingAverageData30Day, versionReleases,
          htmlWritten, args, inputFileExists, exitCode>>

(***************************************************************************)
(* Bounds of the model and the sample values the inputs are drawn from.    *)
(***************************************************************************)
MaxCommits == 4

\* Commit timestamps in milliseconds (parseInt(%at) * 1000).  0 and 2304000
\* fall on the same UTC day, 86400000 on the next one; a list may repeat a
\* timestamp.
TimeStamps == {0, 2304000, 86400000}

\* Recorded download counts.
DownloadValues == {0, 1, 3}

(***************************************************************************)
(* Object keys are sequences of characters, so that String.endsWith is     *)
(* computed on the characters.                                             *)
(***************************************************************************)
KeyDownloads == <<"d", "o", "w", "n", "l", "o", "a", "d", "s">>
KeyUpdated == <<"u", "p", "d", "a", "t", "e", "d">>
BetaSuffix == <<"-", "b", "e", "t", "a">>

\* Mutant of EndsWith: the suffix found anywhere in the key.
Contains(key, suffix) ==
  \E n \in 1..Len(key) :
     /\ n + Len(suffix) - 1 <= Len(key)
     /\ SubSeq(key, n, n + Len(suffix) - 1) = suffix

\* key.endsWith(suffix)
EndsWith(key, suffix) ==
  /\ Len(key) >= Len(suffix)
  /\ SubSeq(key, Len(key) - Len(suffix) + 1, Len(key)) = suffix

\* The restriction of object obj to the keys in keep.
Pick(obj, keep) == [k \in keep |-> obj[k]]

\* pluginData.downloads || 0
DownloadsOf(pd) ==
  IF KeyDownloads \in DOMAIN pd /\ pd[KeyDownloads] # 0 THEN pd[KeyDownloads] ELSE 0

\* simple extractor: Object.keys(pluginData).filter(...).reduce(...)
SimpleKeyKept(key) == key # KeyDownloads /\ key # KeyUpdated

SimpleVersions(pd) == Pick(pd, {k \in DOMAIN pd : SimpleKeyKept(k)})

\* strict extractor: the for-in loop with its two `continue`s
StrictKeyKept(key) ==
  /\ ~(key = KeyDownloads \/ key = KeyUpdated)
  /\ ~EndsWith(key, BetaSuffix)

StrictVersions(pd) == Pick(pd, {k \in DOMAIN pd : StrictKeyKept(k)})

(***************************************************************************)
(* Dates.  new Date(ms).toISOString().split("T")[0] is the UTC calendar    *)
(* day of the timestamp; a day is represented by its number since the      *)
(* epoch, which determines the YYYY-MM-DD string and is determined by it.  *)
(***************************************************************************)
MsPerDay == 86400000

DateOf(timestamp) == timestamp \div MsPerDay


(***************************************************************************)
(* Array.prototype.sort is stable: the elements in ascending order of      *)
(* their keys, elements of equal key in their original order.  key[i] is   *)
(* the value the comparator orders seq[i] by.                              *)
(***************************************************************************)
StableSort(seq, key) ==
  LET n == Len(seq)
      rank(i) == 1 + Cardinality({j \in 1..n :
                        key[j] < key[i] \/ (key[j] = key[i] /\ j < i)})
  IN [p \in 1..n |-> seq[CHOOSE i \in 1..n : rank(i) = p]]

(***************************************************************************)
(* The commit loop's exits that both extractors share.                     *)
(***************************************************************************)
\* Mutant of CatchError: the failure ends the loop instead of being skipped.
CatchErrorAbort(acc) == [acc EXCEPT !.brk = TRUE, !.out = "error"]

\* catch (error) { console.error(...) }: the accumulators stay as they are
\* and the loop goes on.
CatchError(acc) == [acc EXCEPT !.out = "error"]

\* Mutant of PluginNotFound: the loop goes on to the older commits.
PluginNotFoundContinue(acc) == [acc EXCEPT !.out = "absent"]

\* if (!statsData[pluginName]) { console.log(...); break; }
PluginNotFound(acc) == [acc EXCEPT !.brk = TRUE, !.out = "absent"]

(***************************************************************************)
(* The simple extractor (src/unnamed/part_000).                            *)
(***************************************************************************)
\* Mutant of DateInHistory: the day check never finds the date.
DateNeverInHistory(h, date) == FALSE

\* history.some((entry) => entry.date === date)
DateInHistory(h, date) == \E k \in 1..Len(h) : h[k].date = date

\* Mutant of IsAnomalous: an equal download count is rejected too.
IsAnomalousOrEqual(downloads, lastValid) == downloads >= lastValid

\* Mutant of IsAnomalous: the comparison the other way round.
IsAnomalousFlipped(downloads, lastValid) == downloads < lastValid

\* if (downloads > lastValidDownloads) ... continue
IsAnomalous(downloads, lastValid) == downloads > lastValid

SimpleEntry(commit) ==
  [date |-> DateOf(commit.timestamp),
   hash |-> commit.hash,
   downloads |-> DownloadsOf(commit.snapshot.pluginData),
   versions |-> SimpleVersions(commit.snapshot.pluginData)]

\* One iteration of the commit loop.  acc holds history, lastValidDownloads
\* and foundFirstEntry; brk tells whether the iteration left the loop and out
\* is the kind of the line it logged.
SimpleIter(acc, commit) ==
  LET a == [acc EXCEPT !.brk = FALSE]
      downloads == DownloadsOf(commit.snapshot.pluginData)
      date == DateOf(commit.timestamp)
  IN IF commit.snapshot.kind = "error" THEN CatchError(a)
     ELSE IF commit.snapshot.kind = "absent" THEN PluginNotFound(a)
     ELSE IF DateInHistory(a.history, date) THEN [a EXCEPT !.out = "duplicate"]
     ELSE IF ~a.foundFirstEntry
     THEN [a EXCEPT !.foundFirstEntry = TRUE,
                    !.lastValidDownloads = downloads,
                    !.history = Append(@, SimpleEntry(commit)),
                    !.out = "first"]
     ELSE IF IsAnomalous(downloads, a.lastValidDownloads)
     THEN [a EXCEPT !.out = "anomaly"]
     ELSE [a EXCEPT !.history = Append(@, SimpleEntry(commit)),
                    !.lastValidDownloads = downloads,
                    !.out = "added"]

\* history.sort((a, b) => new Date(a.date) - new Date(b.date)): new Date of
\* a YYYY-MM-DD string is that day's midnight UTC, MsPerDay times the day
\* number, so the dates are ordered as their day numbers are.
SortByDate(h) == StableSort(h, [k \in 1..Len(h) |-> h[k].date])

SimpleStart == [history |-> <<>>, lastValidDownloads |-> 0,
                foundFirstEntry |-> FALSE, brk |-> FALSE, out |-> "none"]

\* The loop from commit i on, as a function of the commit list.
RECURSIVE SimpleLoop(_, _, _)
SimpleLoop(acc, cs, i) ==
  IF i > Len(cs) \/ acc.brk THEN acc ELSE SimpleLoop(SimpleIter(acc, cs[i]), cs, i + 1)

\* What a whole run writes to the history file.
SimpleRun(cs) == SortByDate(SimpleLoop(SimpleStart, cs, 1).history)

(***************************************************************************)
(* The strict extractor (src/extract-plugin-stats.js).                     *)
(***************************************************************************)
DataPoint(commit) ==
  [hash |-> commit.hash,
   timestamp |-> commit.timestamp,
   date |-> DateOf(commit.timestamp),
   downloads |-> DownloadsOf(commit.snapshot.pluginData),
   versions |-> StrictVersions(commit.snapshot.pluginData)]

\* One iteration of the first phase's loop; acc holds rawData.
StrictIter(acc, commit) ==
  LET a == [acc EXCEPT !.brk = FALSE]
  IN IF commit.snapshot.kind = "error" THEN CatchError(a)
     ELSE IF commit.snapshot.kind = "absent" THEN PluginNotFound(a)
     ELSE [a EXCEPT !.rawData = Append(@, DataPoint(commit)), !.out = "collected"]

StrictStart == [rawData |-> <<>>, brk |-> FALSE, out |-> "none"]

RECURSIVE StrictLoop(_, _, _)
StrictLoop(acc, cs, i) ==
  IF i > Len(cs) \/ acc.brk THEN acc ELSE StrictLoop(StrictIter(acc, cs[i]), cs, i + 1)

\* Mutant of SortByTimestampDesc: the comparator the other way round.
SortByTimestampAsc(raw) == StableSort(raw, [k \in 1..Len(raw) |-> raw[k].timestamp])

\* rawData.sort((a, b) => b.timestamp - a.timestamp)
SortByTimestampDesc(raw) == StableSort(raw, [k \in 1..Len(raw) |-> -raw[k].timestamp])

\* Mutant of IsValid: the point is compared with its newer neighbour only.
IsValidNewerOnly(raw, i) == ~(i > 1 /\ raw[i].downloads > raw[i - 1].downloads)

\* Mutant of IsValid: equal downloads count as an anomaly too.
IsValidStrictly(raw, i) ==
  /\ ~(i > 1 /\ raw[i].downloads >= raw[i - 1].downloads)
  /\ ~(i < Len(raw) /\ raw[i].downloads <= raw[i + 1].downloads)

\* Second phase, the body of the loop for index i (1-based here).
IsValid(raw, i) ==
  /\ ~(i > 1 /\ raw[i].downloads > raw[i - 1].downloads)
  /\ ~(i < Len(raw) /\ raw[i].downloads < raw[i + 1].downloads)

RECURSIVE FilterFrom(_, _)
FilterFrom(raw, i) ==
  IF i > Len(raw) THEN <<>>
  ELSE (IF IsValid(raw, i) THEN <<raw[i]>> ELSE <<>>) \o FilterFrom(raw, i + 1)

SkippedFrom(raw) == Cardinality({i \in 1..Len(raw) : ~IsValid(raw, i)})

(***************************************************************************)
(* Number arithmetic of the third phase.  JavaScript numbers are IEEE 754  *)
(* doubles: a quotient is the exact quotient rounded to 53 significant     *)
(* bits, ties to even.  The code divides twice,                            *)
(*    daysDifference = elapsedMs / (1000 * 60 * 60 * 24)                   *)
(*    Math.round(downloadDifference / daysDifference)                      *)
(* so the second division works on an already rounded divisor.  A 53-bit   *)
(* significand is held as <<hi, lo>>, standing for hi * 2^27 + lo.         *)
(***************************************************************************)
B27 == 134217728

RECURSIVE BitLen(_)
BitLen(n) == IF n = 0 THEN 0 ELSE 1 + BitLen(n \div 2)

BigDouble(p) == <<2 * p[1] + (2 * p[2]) \div B27, (2 * p[2]) % B27>>
BigGeq(p, q) == p[1] > q[1] \/ (p[1] = q[1] /\ p[2] >= q[2])
BigSub(p, q) ==
  IF p[2] >= q[2] THEN <<p[1] - q[1], p[2] - q[2]>>
  ELSE <<p[1] - q[1] - 1, p[2] + B27 - q[2]>>
BigInc(p) == IF p[2] + 1 = B27 THEN <<p[1] + 1, 0>> ELSE <<p[1], p[2] + 1>>

\* Long division of integers e / d: one more bit of the quotient.  m holds
\* the bits so far, nbits how many of them are significant, r the remainder,
\* s the number of bits after the binary point.
MantissaStep(st, d) ==
  LET b == IF 2 * st.r >= d THEN 1 ELSE 0
      m2 == BigDouble(st.m)
  IN [m |-> <<m2[1], m2[2] + b>>,
      nbits |-> IF st.nbits > 0 \/ b = 1 THEN st.nbits + 1 ELSE 0,
      r |-> 2 * st.r - b * d,
      s |-> st.s + 1]

\* Round to nearest, ties to even, on the 54th bit and the remainder.
MantissaRound(st, d) ==
  LET g == 2 * st.r >= d
      rem == 2 * st.r - (IF g THEN d ELSE 0)
      up == g /\ (rem > 0 \/ st.m[2] % 2 = 1)
      mm == IF up THEN BigInc(st.m) ELSE st.m
  IN IF mm = <<B27 \div 2, 0>> THEN [m |-> <<B27 \div 4, 0>>, s |-> st.s - 1]
     ELSE [m |-> mm, s |-> st.s]

RECURSIVE DivMantissa(_, _)
DivMantissa(st, d) ==
  IF st.nbits = 53 THEN MantissaRound(st, d) ELSE DivMantissa(MantissaStep(st, d), d)

\* The double e / d for integers e > 0, d > 0: the value x.m * 2^(-x.s).
DoubleQuotient(e, d) ==
  DivMantissa([m |-> <<0, e \div d>>, nbits |-> BitLen(e \div d), r |-> e % d, s |-> 0], d)

\* Long division a / x for an integer a > 0 and a double x: one more bit.
\* The first x.s bits are the integer part int; of the bits after the binary
\* point f1 is the first, any/all tell whether any/all of the later ones are
\* set, last is the latest bit.
QuotientStep(st, x) ==
  LET r2 == BigDouble(st.r)
      b == BigGeq(r2, x.m)
  IN [r |-> IF b THEN BigSub(r2, x.m) ELSE r2,
      j |-> st.j + 1,
      int |-> IF st.j < x.s THEN 2 * st.int + (IF b THEN 1 ELSE 0) ELSE st.int,
      nbits |-> IF st.nbits > 0 \/ b THEN st.nbits + 1 ELSE 0,
      f1 |-> IF st.j < x.s THEN FALSE ELSE IF st.j = x.s THEN b ELSE st.f1,
      any |-> IF st.j <= x.s THEN FALSE ELSE st.any \/ b,
      all |-> IF st.j <= x.s THEN TRUE ELSE st.all /\ b,
      last |-> b]

\* The double a / x, as its integer part and whether its fraction is at
\* least a half (half) or more than a half (over).
RECURSIVE RoundQuotient(_, _)
RoundQuotient(st, x) ==
  IF st.j < x.s \/ st.nbits < 53
  THEN RoundQuotient(QuotientStep(st, x), x)
  ELSE LET g == QuotientStep(st, x)
           up == g.last /\ (g.r # <<0, 0>> \/ st.last)
       IN [int |-> st.int, half |-> st.f1 \/ (up /\ st.all),
           over |-> st.f1 /\ (st.any \/ up)]

\* Math.round(n / x): the nearest integer, a half rounding towards +Infinity.
MathRoundDiv(n, x) ==
  LET a == IF n < 0 THEN -n ELSE n
      q == RoundQuotient([r |-> <<0, a>>, j |-> 0, int |-> 0, nbits |-> 0,
                          f1 |-> FALSE, any |-> FALSE, all |-> TRUE, last |-> FALSE], x)
  IN IF n = 0 THEN 0
     ELSE IF n > 0 THEN q.int + (IF q.half THEN 1 ELSE 0)
     ELSE -(q.int + (IF q.over THEN 1 ELSE 0))

\* Math.round(downloadDifference / daysDifference) for every difference of
\* two sample download counts and every positive difference of two sample
\* timestamps, computed once.
RoundedRates ==
  [n \in {a - b : a, b \in DownloadValues},
   e \in {d \in {a - b : a, b \in TimeStamps} : d > 0}
   |-> MathRoundDiv(n, DoubleQuotient(e, MsPerDay))]

\* daysDifference > 0 ? Math.round(downloadDifference / daysDifference) : 0
\* (the quotient elapsedMs / 86400000 has the sign of elapsedMs)
GrowthPerDay(downloadDifference, elapsedMs) ==
  IF elapsedMs > 0 THEN RoundedRates[downloadDifference, elapsedMs] ELSE 0

(***************************************************************************)
(* The strict extractor's third phase.                                     *)
(***************************************************************************)
KeyDailyGrowth == <<"d", "a", "i", "l", "y", "G", "r", "o", "w", "t", "h">>

\* obj[key] = value on an object held as its properties in insertion order:
\* an existing property keeps its place and takes the new value.  (The keys
\* are millisecond timestamps of commits, far above the array-index range,
\* so the properties are enumerated in insertion order; the sample
\* timestamps stand for offsets from such a base.)
ObjSet(obj, key, value) ==
  IF \E p \in 1..Len(obj) : obj[p].key = key
  THEN [p \in 1..Len(obj) |-> IF obj[p].key = key THEN [key |-> key, value |-> value]
                                ELSE obj[p]]
  ELSE Append(obj, [key |-> key, value |-> value])

ObjHas(obj, key) == \E p \in 1..Len(obj) : obj[p].key = key
ObjGet(obj, key) == obj[CHOOSE p \in 1..Len(obj) : obj[p].key = key].value

\* { downloads: ..., dailyGrowth: ..., ...point.versions }
EntryData(point, dailyGrowth) ==
  point.versions @@ (KeyDownloads :> point.downloads @@ KeyDailyGrowth :> dailyGrowth)

\* if (i === validData.length - 1) dailyGrowth = point.downloads; else ...
DailyGrowth(acc, valid, i) ==
  IF i = Len(valid) THEN valid[i].downloads
  ELSE GrowthPerDay(valid[i].downloads - acc.previousDownloads,
                    valid[i].timestamp - acc.previousTimestamp)

\* The body of the third phase's loop for index i (1-based here); acc holds
\* history, previousDownloads and previousTimestamp.
GrowthIter(acc, valid, i) ==
  [historyObj |-> ObjSet(acc.historyObj, valid[i].timestamp,
                         [date |-> valid[i].date,
                          data |-> EntryData(valid[i], DailyGrowth(acc, valid, i))]),
   previousDownloads |-> valid[i].downloads,
   previousTimestamp |-> valid[i].timestamp]

GrowthStart == [historyObj |-> <<>>, previousDownloads |-> 0, previousTimestamp |-> 0]

RECURSIVE GrowthLoop(_, _, _)
GrowthLoop(acc, valid, i) ==
  IF i < 1 THEN acc ELSE GrowthLoop(GrowthIter(acc, valid, i), valid, i - 1)

\* What a whole run writes to the history file.
StrictRun(cs) ==
  LET raw == SortByTimestampDesc(StrictLoop(StrictStart, cs, 1).rawData)
      valid == FilterFrom(raw, 1)
  IN GrowthLoop(GrowthStart, valid, Len(valid)).historyObj

(***************************************************************************)
(* The inputs of an extractor run.                                         *)
(***************************************************************************)
Version1 == <<"1", ".", "0">>
VersionBeta == <<"1", ".", "1", "-", "b", "e", "t", "a">>

\* A plugin record with d downloads; a record of no downloads leaves the
\* `downloads` field out.
PluginRecord(d) ==
  (IF d = 0 THEN <<>> ELSE KeyDownloads :> d)
  @@ (KeyUpdated :> 0 @@ Version1 :> d @@ VersionBeta :> 1)

\* What `git show` and JSON.parse give for a commit: a failure of either, a
\* stats file without the plugin, or one with it.
Snapshots ==
  {[kind |-> "error"], [kind |-> "absent"]}
  \cup {[kind |-> "present", pluginData |-> PluginRecord(d)] : d \in DownloadValues}

CommitChoices == [timestamp : TimeStamps, snapshot : Snapshots]

\* The commit list: the log's lines in order, each with its own hash.
\* A commit whose snapshot gives no plugin record has its timestamp never
\* read; in the sample it carries the timestamp of the commit listed before
\* it (the first one, the latest sample timestamp).
CommitLists ==
  {[i \in 1..Len(c) |-> [hash |-> i, timestamp |-> c[i].timestamp,
                         snapshot |-> c[i].snapshot]] :
     c \in {c \in UNION {[1..n -> CommitChoices] : n \in 1..MaxCommits} :
              \A i \in 1..Len(c) :
                 c[i].snapshot.kind # "present" =>
                    c[i].timestamp = (IF i = 1 THEN MsPerDay ELSE c[i - 1].timestamp)}}

\* The extractors' variables before the commit loop.
ExtractorStart ==
  /\ idx = 1
  /\ fetched = <<>>
  /\ log = <<>>
  /\ history = <<>>
  /\ lastValidDownloads = 0
  /\ foundFirstEntry = FALSE
  /\ rawData = <<>>
  /\ validData = <<>>
  /\ skippedCount = 0
  /\ historyObj = <<>>
  /\ previousDownloads = 0
  /\ previousTimestamp = 0
  /\ written = FALSE
  /\ outputFile = <<>>

\* The variables of the version extraction when no record is under study.
NoRecord == pluginData = <<>> /\ versions = <<>>

\* The chart generator's variables before it has read anything.
ChartStart ==
  /\ dataPoints = <<>>
  /\ derivativeData = <<>>
  /\ rollingAverageData7Day = <<>>
  /\ rollingAverageData30Day = <<>>
  /\ versionReleases = {}
  /\ htmlWritten = FALSE

\* The plugin the scripts are run for.
PluginName == "chatgpt-md"

\* An extractor past its start: the plugin name given, no history file
\* written yet, no fatal error.
ArgsGiven == args = <<PluginName>> /\ inputFileExists = FALSE /\ exitCode = 0

InitSimple ==
  /\ prog = "simple" /\ pc = "loop" /\ commits \in CommitLists
  /\ ExtractorStart /\ NoRecord /\ historicalData = <<>> /\ ChartStart
  /\ ArgsGiven

InitStrict ==
  /\ prog = "strict" /\ pc = "loop" /\ commits \in CommitLists
  /\ ExtractorStart /\ NoRecord /\ historicalData = <<>> /\ ChartStart
  /\ ArgsGiven

simpleVars == <<history, lastValidDownloads, foundFirstEntry>>
strictVars == <<rawData, validData, skippedCount, historyObj,
                previousDownloads, previousTimestamp>>
chartVars == <<historicalData, dataPoints, derivativeData,
               rollingAverageData7Day, rollingAverageData30Day,
               versionReleases, htmlWritten>>
startVars == <<args, inputFileExists, exitCode>>
extractorVars == <<commits, idx, fetched, log, simpleVars, strictVars,
                   written, outputFile>>
otherVars == <<pluginData, versions, chartVars, startVars>>

(***************************************************************************)
(* The simple extractor's steps.                                           *)
(***************************************************************************)
\* One iteration of `for (const commit of commits)`.
SimpleCommit ==
  /\ prog = "simple" /\ pc = "loop"
  /\ LET r == SimpleIter([history |-> history,
                          lastValidDownloads |-> lastValidDownloads,
                          foundFirstEntry |-> foundFirstEntry,
                          brk |-> FALSE, out |-> "none"], commits[idx])
     IN /\ history' = r.history
        /\ lastValidDownloads' = r.lastValidDownloads
        /\ foundFirstEntry' = r.foundFirstEntry
        /\ fetched' = Append(fetched, commits[idx].hash)
        /\ log' = Append(log, r.out)
        /\ idx' = IF r.brk THEN idx ELSE idx + 1
        /\ pc' = IF r.brk \/ idx = Len(commits) THEN "sort" ELSE "loop"
  /\ UNCHANGED <<prog, commits, strictVars, written, outputFile, otherVars>>

\* history.sort(...); fs.writeFileSync(outputFile, JSON.stringify(history))
SimpleSortWrite ==
  /\ prog = "simple" /\ pc = "sort"
  /\ history' = SortByDate(history)
  /\ written' = TRUE
  /\ outputFile' = history'
  /\ pc' = "done"
  /\ UNCHANGED <<prog, commits, idx, fetched, log, lastValidDownloads,
                 foundFirstEntry, strictVars, otherVars>>

(***************************************************************************)
(* The strict extractor's steps.                                           *)
(***************************************************************************)
\* First phase: one iteration of `for (const commit of commits)`.
StrictCommit ==
  /\ prog = "strict" /\ pc = "loop"
  /\ LET r == StrictIter([rawData |-> rawData, brk |-> FALSE, out |-> "none"],
                         commits[idx])
     IN /\ rawData' = r.rawData
        /\ fetched' = Append(fetched, commits[idx].hash)
        /\ log' = Append(log, r.out)
        /\ idx' = IF r.brk THEN idx ELSE idx + 1
        /\ pc' = IF r.brk \/ idx = Len(commits) THEN "sort" ELSE "loop"
  /\ UNCHANGED <<prog, commits, simpleVars, validData, skippedCount, historyObj,
                 previousDownloads, previousTimestamp, written, outputFile,
                 otherVars>>

\* rawData.sort(...) and the second phase.
StrictFilter ==
  /\ prog = "strict" /\ pc = "sort"
  /\ rawData' = SortByTimestampDesc(rawData)
  /\ validData' = FilterFrom(rawData', 1)
  /\ skippedCount' = SkippedFrom(rawData')
  /\ idx' = Len(validData')
  /\ pc' = "growth"
  /\ UNCHANGED <<prog, commits, fetched, log, simpleVars, historyObj,
                 previousDownloads, previousTimestamp, written, outputFile,
                 otherVars>>

\* Third phase: one iteration of `for (let i = validData.length - 1; ...)`.
StrictGrowth ==
  /\ prog = "strict" /\ pc = "growth" /\ idx >= 1
  /\ LET r == GrowthIter([historyObj |-> historyObj,
                          previousDownloads |-> previousDownloads,
                          previousTimestamp |-> previousTimestamp], validData, idx)
     IN /\ historyObj' = r.historyObj
        /\ previousDownloads' = r.previousDownloads
        /\ previousTimestamp' = r.previousTimestamp
  /\ idx' = idx - 1
  /\ UNCHANGED <<prog, commits, pc, fetched, log, simpleVars, rawData, validData,
                 skippedCount, written, outputFile, otherVars>>

\* fs.writeFileSync(outputFile, JSON.stringify(history, null, 2))
StrictWrite ==
  /\ prog = "strict" /\ pc = "growth" /\ idx < 1
  /\ written' = TRUE
  /\ outputFile' = historyObj
  /\ pc' = "done"
  /\ UNCHANGED <<prog, commits, idx, fetched, log, simpleVars, strictVars, otherVars>>

NextSimple == SimpleCommit \/ SimpleSortWrite
NextStrict == StrictCommit \/ StrictFilter \/ StrictGrowth \/ StrictWrite

SpecSimple == InitSimple /\ [][NextSimple]_vars
SpecStrict == InitStrict /\ [][NextStrict]_vars

\* A run of either extractor.
Init == InitSimple \/ InitStrict
Next == NextSimple \/ NextStrict
Spec == Init /\ [][Next]_vars

(***************************************************************************)
(* Properties of the extractors.                                           *)
(***************************************************************************)
IsPresent(c) == c.snapshot.kind = "present"

\* The commit list is newest-first: timestamps never increase along it.
NewestFirst(cs) == \A i \in 1..(Len(cs) - 1) : cs[i].timestamp >= cs[i + 1].timestamp

NonDecreasing(h) == \A i \in 1..(Len(h) - 1) : h[i].downloads <= h[i + 1].downloads

RemoveErrors(cs) == SelectSeq(cs, LAMBDA c : c.snapshot.kind # "error")

\* What a whole run of the script chosen writes for commit list cs.
RunOutput(cs) == IF prog = "simple" THEN SimpleRun(cs) ELSE StrictRun(cs)

\* C1: simple extractor, commit list newest-first: the history array written
\* after the sort by date has non-decreasing downloads from each entry to
\* the next.
C1_SequentialMonotone ==
  (prog = "simple" /\ written /\ NewestFirst(commits)) => NonDecreasing(outputFile)

\* C1 witness: a newest-first list, an anomalous commit skipped, and a
\* written history whose downloads rise.
C1_Witness ==
  /\ prog = "simple" /\ written /\ NewestFirst(commits)
  /\ \E k \in 1..Len(log) : log[k] = "anomaly"
  /\ Len(outputFile) >= 2
  /\ outputFile[1].downloads < outputFile[2].downloads

\* C2: strict extractor: the retained points (validData, newest first) read
\* oldest to newest have non-decreasing downloads.
C2_NeighborMonotone ==
  (prog = "strict" /\ pc \in {"growth", "done"}) =>
     \A i \in 1..(Len(validData) - 1) :
        validData[i + 1].downloads <= validData[i].downloads

\* C3: simple extractor: after any prefix of the commits, and in the written
\* history, no two entries have the same calendar date.
C3_UniqueDates ==
  prog = "simple" =>
     /\ \A i, j \in 1..Len(history) : i # j => history[i].date # history[j].date
     /\ \A i, j \in 1..Len(outputFile) : i # j => outputFile[i].date # outputFile[j].date

\* C3 witness: a commit was skipped for its date and the written history has
\* several entries.
C3_Witness ==
  /\ prog = "simple" /\ written
  /\ \E k \in 1..Len(log) : log[k] = "duplicate"
  /\ Len(outputFile) >= 2

\* C4 as claimed: for a newest-first commit list, the entry kept for a date
\* is the first commit of that date in processing order in which the plugin
\* exists; no later commit of the date appears in the output.
C4_FirstSeenKept ==
  (prog = "simple" /\ written /\ NewestFirst(commits)) =>
     \A p \in 1..Len(outputFile) : \A j \in 1..(outputFile[p].hash - 1) :
        IsPresent(commits[j]) => DateOf(commits[j].timestamp) # outputFile[p].date

\* C4 amended: the entry kept for a date is the first commit of that date in
\* processing order that the anomaly check does not reject: every commit of
\* the same date listed before a kept entry, with the plugin in it, was
\* skipped as anomalous, and none listed after it is kept.
C4_FirstAcceptedKept ==
  prog = "simple" =>
     \A p \in 1..Len(history) : \A j \in 1..Len(log) :
        (/\ j # history[p].hash
         /\ IsPresent(commits[j])
         /\ DateOf(commits[j].timestamp) = history[p].date)
        => IF j < history[p].hash THEN log[j] = "anomaly" ELSE log[j] = "duplicate"

\* C4 witness: the written history keeps a commit whose date was first seen
\* on a commit skipped as anomalous, and a later commit of that date was
\* skipped as a duplicate.
C4_Witness ==
  /\ prog = "simple" /\ written
  /\ \E p \in 1..Len(outputFile) :
        /\ \E j \in 1..(outputFile[p].hash - 1) :
              /\ IsPresent(commits[j])
              /\ DateOf(commits[j].timestamp) = outputFile[p].date
              /\ log[j] = "anomaly"
        /\ \E j \in (outputFile[p].hash + 1)..Len(log) :
              /\ DateOf(commits[j].timestamp) = outputFile[p].date
              /\ log[j] = "duplicate"

\* The commit at which the loop stops: the first one whose snapshot parses
\* and lacks the plugin.
IsStop(j) ==
  /\ j \in 1..Len(commits)
  /\ commits[j].snapshot.kind = "absent"
  /\ \A k \in 1..(j - 1) : commits[k].snapshot.kind # "absent"

\* C5: both extractors: once a fetched snapshot lacks the plugin no older
\* commit is fetched and none contributes a data point; the run still ends
\* by writing the history of the commits before the stop.
C5_StopAtMissing ==
  \A j \in 1..Len(commits) :
     (IsStop(j) /\ Len(fetched) >= j) =>
        /\ Len(fetched) = j
        /\ pc # "loop"
        /\ \A k \in 1..Len(history) : history[k].hash < j
        /\ \A k \in 1..Len(rawData) : rawData[k].hash < j
        /\ pc = "done" => (written /\ outputFile = RunOutput(SubSeq(commits, 1, j - 1)))

\* C5 witness: a finished run that stopped at a commit with older commits
\* behind it, one of them with the plugin, and wrote a non-empty history.
C5_Witness ==
  /\ pc = "done" /\ written /\ Len(outputFile) >= 1
  /\ \E j \in 1..(Len(commits) - 1) : IsStop(j) /\ IsPresent(commits[j + 1])

\* C6: both extractors: a commit whose fetch or parse fails leaves every
\* accumulator as it is and the loop goes on with the next commit; what the
\* run writes is what it writes for the list without the failing commits.
C6_FailureSkipped ==
  /\ [][(pc = "loop" /\ commits[idx].snapshot.kind = "error") =>
          /\ UNCHANGED <<history, lastValidDownloads, foundFirstEntry, rawData>>
          /\ idx' = idx + 1
          /\ pc' = IF idx = Len(commits) THEN "sort" ELSE "loop"]_vars
  /\ [](pc = "done" => (written /\ outputFile = RunOutput(RemoveErrors(commits))))

\* C6 witness: a finished run with a failing commit between two commits that
\* both reached the written history.
C6_Witness ==
  /\ pc = "done" /\ written
  /\ \E j \in 2..(Len(log) - 1) :
        /\ log[j] = "error"
        /\ log[j - 1] \in {"first", "collected"}
        /\ log[j + 1] \in {"added", "collected"}
  /\ Len(outputFile) >= 2

\* round(n * 86400000 / elapsedMs) in exact arithmetic, a half rounding
\* upwards, for elapsedMs > 0.  Timestamps are whole seconds, so the factor
\* 1000 is cancelled first.
ExactRoundedRate(n, elapsedMs) ==
  (2 * n * (MsPerDay \div 1000) + elapsedMs \div 1000) \div (2 * (elapsedMs \div 1000))

\* C7: strict extractor: the dailyGrowth written for a retained point other
\* than the oldest is round((downloads_i - downloads_{i-1}) * 86400000 /
\* elapsed), halves upwards, when the time elapsed since the next-older
\* retained point is positive, and 0 when it is zero.
C7_GrowthRate ==
  (prog = "strict" /\ pc = "growth" /\ idx + 1 < Len(validData)) =>
     LET point == validData[idx + 1]
         older == validData[idx + 2]
         elapsed == point.timestamp - older.timestamp
     IN /\ elapsed >= 0
        /\ ObjGet(historyObj, point.timestamp).data[KeyDailyGrowth] =
             IF elapsed > 0
             THEN ExactRoundedRate(point.downloads - older.downloads, elapsed)
             ELSE 0

\* C8: strict extractor: in the emitted history the entry of the oldest
\* retained point has dailyGrowth equal to that point's download count.
C8_OldestGrowth ==
  (prog = "strict" /\ written /\ Len(validData) >= 1) =>
     LET oldest == validData[Len(validData)]
     IN /\ ObjHas(outputFile, oldest.timestamp)
        /\ ObjGet(outputFile, oldest.timestamp).data[KeyDailyGrowth] = oldest.downloads

(***************************************************************************)
(* Version extraction on its own: both scripts' version maps of one plugin *)
(* record, for every record over the sample keys.                          *)
(***************************************************************************)
VersionBetaTwo == <<"1", "-", "b", "e", "t", "a", "2">>
KeyBeta == <<"b", "e", "t", "a">>

SampleKeys == {KeyDownloads, KeyUpdated, Version1, VersionBeta, BetaSuffix,
               VersionBetaTwo, KeyBeta}

SampleRecords == UNION {[keys -> {1, 2}] : keys \in SUBSET SampleKeys}

InitVersions ==
  /\ prog = "versions" /\ pc = "extract"
  /\ pluginData \in SampleRecords
  /\ versions = <<>>
  /\ commits = <<>> /\ ExtractorStart /\ historicalData = <<>> /\ ChartStart
  /\ ArgsGiven

\* The version map each script builds from pluginData.
ExtractVersions ==
  /\ prog = "versions" /\ pc = "extract"
  /\ versions' = [strict |-> StrictVersions(pluginData),
                  simple |-> SimpleVersions(pluginData)]
  /\ pc' = "done"
  /\ UNCHANGED <<prog, pluginData, extractorVars, chartVars, startVars>>

NextVersions == ExtractVersions
SpecVersions == InitVersions /\ [][NextVersions]_vars

\* The key ends in the literal suffix -beta: it is some prefix followed by it.
HasBetaSuffix(key) == \E n \in 0..Len(key) : key = SubSeq(key, 1, n) \o BetaSuffix

\* C10: for every plugin record, the strict version map holds exactly the
\* keys other than downloads and updated that do not end in -beta, the simple
\* one exactly the keys other than downloads and updated, each with the
\* record's count.
C10_VersionMaps ==
  (prog = "versions" /\ pc = "done") =>
     /\ DOMAIN versions.strict =
          {k \in DOMAIN pluginData \ {KeyDownloads, KeyUpdated} : ~HasBetaSuffix(k)}
     /\ DOMAIN versions.simple = DOMAIN pluginData \ {KeyDownloads, KeyUpdated}
     /\ \A k \in DOMAIN versions.strict : versions.strict[k] = pluginData[k]
     /\ \A k \in DOMAIN versions.simple : versions.simple[k] = pluginData[k]

\* C10 witness: a record with both reserved keys, a release, a -beta release
\* and a key that has -beta inside but not at its end.
C10_Witness ==
  /\ prog = "versions" /\ pc = "done"
  /\ {KeyDownloads, KeyUpdated, Version1, VersionBeta, VersionBetaTwo} \subseteq DOMAIN pluginData
  /\ DOMAIN versions.strict = {Version1, VersionBetaTwo}
  /\ DOMAIN versions.simple = {Version1, VersionBeta, VersionBetaTwo}

(***************************************************************************)
(* The chart generator (src/generate-download-chart.js), from the parsed   *)
(* history file to the rolling averages.  Arrays are indexed from 1 here.  *)
(***************************************************************************)
MaxPoints == 33

windowSize7Day == 7
windowSize30Day == 30

\* Math.round(a / b) for integers a and b > 0: the quotient of two integers
\* is the exact quotient correctly rounded, so a half is met only exactly.
RoundDiv(a, b) == (2 * a + b) \div (2 * b)

\* Object.entries(historicalData).map(...).sort((a, b) => a.date - b.date).
\* new Date(entry.date) is held as the day number of the date string: the
\* difference of two of them in milliseconds is MsPerDay times the
\* difference of the day numbers.
ChartPoint(entry) ==
  [date |-> entry.value.date,
   downloads |-> DownloadsOf(entry.value.data),
   versions |-> Pick(entry.value.data,
                     {k \in DOMAIN entry.value.data : k # KeyDownloads /\ k # KeyUpdated})]

ChartDataPoints(hd) ==
  LET points == [k \in 1..Len(hd) |-> ChartPoint(hd[k])]
  IN StableSort(points, [k \in 1..Len(points) |-> points[k].date])

\* The loop `for (let i = 1; i < downloadCounts.length; i++)`.
Derivative(dp) ==
  [k \in 1..(Len(dp) - 1) |->
     LET daysDifference == ((dp[k + 1].date - dp[k].date) * MsPerDay) \div MsPerDay
         downloadDifference == dp[k + 1].downloads - dp[k].downloads
     IN [x |-> dp[k + 1].date,
         y |-> IF daysDifference > 0 THEN RoundDiv(downloadDifference, daysDifference)
               ELSE 0]]

RECURSIVE SumSeq(_)
SumSeq(s) == IF s = <<>> THEN 0 ELSE Head(s) + SumSeq(Tail(s))

\* Mutant of WindowStart: the window reaches one point further back.
WindowStartEarly(i, windowSize) == IF i - windowSize > 1 THEN i - windowSize ELSE 1

\* Math.max(0, i - windowSize + 1), for indices from 1
WindowStart(i, windowSize) == IF i - windowSize + 1 > 1 THEN i - windowSize + 1 ELSE 1

\* The loops that fill rollingAverageData7Day and rollingAverageData30Day.
RollingAverage(dd, windowSize) ==
  [i \in 1..Len(dd) |->
     LET startIdx == WindowStart(i, windowSize)
         windowValues == [k \in 1..(i - startIdx + 1) |-> dd[startIdx + k - 1].y]
         sum == SumSeq(windowValues)
     IN [x |-> dd[i].x,
         y |-> IF Len(windowValues) > 0 THEN RoundDiv(sum, Len(windowValues)) ELSE 0]]

\* The sample history files: n points (every gap days), the downloads
\* growing by a per point before point p and by b per point from it on, in
\* the shape the strict extractor writes.
SampleHistory(n, gap, p, a, b) ==
  [k \in 1..n |->
     LET downloads == IF k <= p THEN a * (k - 1) ELSE a * (p - 1) + b * (k - p)
     IN [key |-> k,
         value |-> [date |-> gap * (k - 1),
                    data |-> (KeyDownloads :> downloads
                              @@ KeyDailyGrowth :> (IF k <= p THEN a ELSE b))]]]

SampleHistories ==
  {SampleHistory(n, gap, p, a, b) :
     n \in 0..MaxPoints, gap \in {1, 2}, p \in {1, 2, 5, 16}, a \in {0, 1, 3}, b \in {0, 1, 3}}

\* dataPoints.forEach((point, index) => ...): a marker for every key of
\* point.versions that no earlier point has, at the point that has it first.
\* The markers are held as a set: their order among the keys of one point is
\* that of the keys in the history file, which the model does not keep.
\* (The currentVersion tag of lines 39-64 is written on the points and never
\* read again; it is left out.)
VersionReleases(dp) ==
  {[version |-> v, date |-> dp[i].date, index |-> i, downloads |-> dp[i].downloads] :
     <<v, i>> \in {q \in UNION {(DOMAIN dp[k].versions) \X {k} : k \in 1..Len(dp)} :
                     \A j \in 1..(q[2] - 1) : q[1] \notin DOMAIN dp[j].versions}}

\* dataPoints[0].date.getTime() and dataPoints[dataPoints.length - 1].date
\* .getTime(): reading .date of undefined throws a TypeError nothing catches.
RangeThrows(dp) == Len(dp) = 0

InitChart ==
  /\ prog = "chart" /\ pc = "load"
  /\ historicalData \in SampleHistories
  /\ ChartStart
  /\ commits = <<>> /\ ExtractorStart /\ NoRecord
  /\ args = <<>> /\ inputFileExists = TRUE /\ exitCode = 0

ChartLoad ==
  /\ prog = "chart" /\ pc = "load"
  /\ dataPoints' = ChartDataPoints(historicalData)
  /\ pc' = "range"
  /\ UNCHANGED <<prog, extractorVars, pluginData, versions, historicalData,
                 derivativeData, rollingAverageData7Day, rollingAverageData30Day,
                 versionReleases, htmlWritten, startVars>>

\* dates, downloadCounts, oldestDate, newestDate: the script ends here, with
\* status 1 and nothing written, when there is no data point.
ChartRange ==
  /\ prog = "chart" /\ pc = "range"
  /\ IF RangeThrows(dataPoints)
     THEN pc' = "failed" /\ exitCode' = 1
     ELSE pc' = "releases" /\ exitCode' = exitCode
  /\ UNCHANGED <<prog, extractorVars, pluginData, versions, chartVars, args,
                 inputFileExists>>

ChartReleases ==
  /\ prog = "chart" /\ pc = "releases"
  /\ versionReleases' = VersionReleases(dataPoints)
  /\ pc' = "derive"
  /\ UNCHANGED <<prog, extractorVars, pluginData, versions, historicalData,
                 dataPoints, derivativeData, rollingAverageData7Day,
                 rollingAverageData30Day, htmlWritten, startVars>>

ChartDerive ==
  /\ prog = "chart" /\ pc = "derive"
  /\ derivativeData' = Derivative(dataPoints)
  /\ pc' = "roll7"
  /\ UNCHANGED <<prog, extractorVars, pluginData, versions, historicalData,
                 dataPoints, rollingAverageData7Day, rollingAverageData30Day,
                 versionReleases, htmlWritten, startVars>>

ChartRolling7 ==
  /\ prog = "chart" /\ pc = "roll7"
  /\ rollingAverageData7Day' = RollingAverage(derivativeData, windowSize7Day)
  /\ pc' = "roll30"
  /\ UNCHANGED <<prog, extractorVars, pluginData, versions, historicalData,
                 dataPoints, derivativeData, rollingAverageData30Day,
                 versionReleases, htmlWritten, startVars>>

ChartRolling30 ==
  /\ prog = "chart" /\ pc = "roll30"
  /\ rollingAverageData30Day' = RollingAverage(derivativeData, windowSize30Day)
  /\ pc' = "html"
  /\ UNCHANGED <<prog, extractorVars, pluginData, versions, historicalData,
                 dataPoints, derivativeData, rollingAverageData7Day,
                 versionReleases, htmlWritten, startVars>>

\* The datasets, the page and fs.writeFileSync(outputHtmlFile, htmlContent).
ChartWrite ==
  /\ prog = "chart" /\ pc = "html"
  /\ htmlWritten' = TRUE
  /\ pc' = "done"
  /\ UNCHANGED <<prog, extractorVars, pluginData, versions, historicalData,
                 dataPoints, derivativeData, rollingAverageData7Day,
                 rollingAverageData30Day, versionReleases, startVars>>

NextChart ==
  \/ ChartLoad \/ ChartRange \/ ChartReleases \/ ChartDerive
  \/ ChartRolling7 \/ ChartRolling30 \/ ChartWrite
SpecChart == InitChart /\ [][NextChart]_vars

(***************************************************************************)
(* The two scripts run one after the other on the plugin PluginName: the   *)
(* strict extractor from its first line, then the chart generator on the   *)
(* history file the extractor left (or did not leave).                     *)
(***************************************************************************)
\* Mutant of ArgsMissing: the test can never succeed.
ArgsMissingNever(a) == Len(a) < 0

\* args.length === 0
ArgsMissing(a) == Len(a) = 0

\* The argument check of the strict extractor.
StrictCheckArgs ==
  /\ prog = "strict" /\ pc = "start"
  /\ IF ArgsMissing(args)
     THEN /\ log' = log \o <<"error: plugin name missing", "usage">>
          /\ exitCode' = 1
          /\ pc' = "exit"
     ELSE /\ log' = log
          /\ exitCode' = exitCode
          /\ pc' = "loop"
  /\ UNCHANGED <<prog, commits, idx, fetched, simpleVars, strictVars, written,
                 outputFile, pluginData, versions, chartVars, args, inputFileExists>>

\* JSON.parse(fs.readFileSync(inputFile)) of the text JSON.stringify(history)
\* gave: the same properties with the same values.  An object enumerates its
\* integer keys below 2^32 - 1 in ascending order and then its other keys in
\* the order they were added; the sample timestamps are such integers.
ParseHistoryFile(file) == StableSort(file, [k \in 1..Len(file) |-> file[k].key])

\* The chart generator is started once the extractor has ended; the history
\* file exists if the extractor wrote it.
RunChart ==
  /\ prog = "strict" /\ pc \in {"done", "exit"}
  /\ prog' = "chart"
  /\ pc' = "start"
  /\ inputFileExists' = written
  /\ exitCode' = 0
  /\ UNCHANGED <<extractorVars, pluginData, versions, chartVars, args>>

\* The input file check of the chart generator and the read of the file.
ChartCheckInput ==
  /\ prog = "chart" /\ pc = "start"
  /\ IF ~inputFileExists
     THEN /\ log' = Append(log, "error: file not found")
          /\ exitCode' = 1
          /\ pc' = "exit"
          /\ historicalData' = historicalData
     ELSE /\ log' = log
          /\ exitCode' = exitCode
          /\ pc' = "load"
          /\ historicalData' = ParseHistoryFile(outputFile)
  /\ UNCHANGED <<prog, commits, idx, fetched, simpleVars, strictVars, written,
                 outputFile, pluginData, versions, dataPoints, derivativeData,
                 rollingAverageData7Day, rollingAverageData30Day, versionReleases,
                 htmlWritten, args, inputFileExists>>

InitPipeline ==
  /\ prog = "strict" /\ pc = "start" /\ commits \in CommitLists
  /\ ExtractorStart /\ NoRecord /\ historicalData = <<>> /\ ChartStart
  /\ args \in {<<>>, <<PluginName>>} /\ inputFileExists = FALSE /\ exitCode = 0

NextPipeline == StrictCheckArgs \/ NextStrict \/ RunChart \/ ChartCheckInput \/ NextChart
SpecPipeline == InitPipeline /\ [][NextPipeline]_vars

\* C11: the strict extractor started without a plugin name, and the chart
\* generator started when its input file does not exist, report the error and
\* end with a non-zero status, having fetched no commit and written neither
\* the history file nor the chart.
C11_MissingInputFatal ==
  /\ (prog = "strict" /\ pc # "start" /\ args = <<>>) =>
        /\ pc = "exit" /\ exitCode # 0
        /\ log = <<"error: plugin name missing", "usage">>
        /\ fetched = <<>> /\ rawData = <<>> /\ ~written /\ outputFile = <<>>
  /\ (prog = "chart" /\ pc # "start" /\ ~inputFileExists) =>
        /\ pc = "exit" /\ exitCode # 0
        /\ Len(log) >= 1 /\ log[Len(log)] = "error: file not found"
        /\ fetched = <<>> /\ ~written /\ ~htmlWritten
        /\ historicalData = <<>> /\ dataPoints = <<>>

\* C11 witness: the chart generator has ended with status 1 on a missing
\* history file after the extractor ended for its missing argument.
C11_Witness ==
  /\ prog = "chart" /\ pc = "exit" /\ exitCode = 1
  /\ args = <<>> /\ ~inputFileExists
  /\ log = <<"error: plugin name missing", "usage", "error: file not found">>

\* The growth-rate values at indices max(1, i - window + 1)..i and their sum.
WindowIndices(i, window) == {k \in 1..i : k > i - window}
RECURSIVE SumOver(_, _)
SumOver(dd, S) ==
  IF S = {} THEN 0
  ELSE LET k == CHOOSE k \in S : TRUE IN dd[k].y + SumOver(dd, S \ {k})

\* C9 as claimed: for windows 7 and 30 the smoothed value at every index i is
\* the arithmetic mean of the growth rates at max(1, i - window + 1)..i.
C9_RollingIsMean ==
  (prog = "chart" /\ pc = "done") =>
     \A i \in 1..Len(derivativeData) :
        /\ rollingAverageData7Day[i].y * Cardinality(WindowIndices(i, 7))
             = SumOver(derivativeData, WindowIndices(i, 7))
        /\ rollingAverageData30Day[i].y * Cardinality(WindowIndices(i, 30))
             = SumOver(derivativeData, WindowIndices(i, 30))

\* v is the mean sum / n rounded to the nearest integer, a half upwards.
IsRoundedMean(v, sum, n) == 2 * n * v - n <= 2 * sum /\ 2 * sum < 2 * n * v + n

\* C9 amended: for windows 7 and 30 the smoothed value at every index i is
\* the arithmetic mean of the growth rates at max(1, i - window + 1)..i
\* rounded to the nearest integer, a half rounding upwards.
C9_RollingIsRoundedMean ==
  (prog = "chart" /\ pc = "done") =>
     /\ Len(rollingAverageData7Day) = Len(derivativeData)
     /\ Len(rollingAverageData30Day) = Len(derivativeData)
     /\ \A i \in 1..Len(derivativeData) :
           /\ IsRoundedMean(rollingAverageData7Day[i].y,
                            SumOver(derivativeData, WindowIndices(i, 7)),
                            Cardinality(WindowIndices(i, 7)))
           /\ IsRoundedMean(rollingAverageData30Day[i].y,
                            SumOver(derivativeData, WindowIndices(i, 30)),
                            Cardinality(WindowIndices(i, 30)))

\* C9 witness: a series longer than both windows whose growth rate changes,
\* so that dropping the oldest point changes the 30-point average, with an
\* average that is not a whole number.
C9_Witness ==
  /\ prog = "chart" /\ pc = "done"
  /\ Len(derivativeData) > 30
  /\ derivativeData[1].y # derivativeData[31].y
  /\ rollingAverageData30Day[31].y # rollingAverageData30Day[30].y
  /\ \E i \in 8..Len(derivativeData) :
        SumOver(derivativeData, WindowIndices(i, 7)) % 7 # 0


(***************************************************************************)
(* Further properties of the extractors.                                   *)
(***************************************************************************)
\* C12: in whatever order the commits are listed, the history array the
\* simple extractor writes is in ascending order of calendar date, and the
\* strict extractor's history object receives its entries in ascending order
\* of timestamp, the oldest retained point first.
C12_FinalOrdering ==
  /\ (prog = "simple" /\ written) =>
        \A i \in 1..(Len(outputFile) - 1) : outputFile[i].date <= outputFile[i + 1].date
  /\ prog = "strict" =>
        /\ \A i \in 1..(Len(historyObj) - 1) : historyObj[i].key < historyObj[i + 1].key
        /\ (Len(historyObj) >= 1) =>
              historyObj[1].key = validData[Len(validData)].timestamp
        /\ written => outputFile = historyObj

\* C12 witness: a commit list that is oldest-first, with several timestamps,
\* and a written history of several entries.
C12_Witness ==
  /\ written /\ Len(outputFile) >= 2
  /\ Len(commits) >= 3
  /\ \A i \in 1..(Len(commits) - 1) : commits[i].timestamp <= commits[i + 1].timestamp
  /\ commits[1].timestamp < commits[Len(commits)].timestamp


\* The indices of rawData whose point lies between its raw neighbours: not
\* above the newer one, not below the older one.
BetweenNeighbors ==
  {i \in 1..Len(rawData) :
     /\ (i > 1 => rawData[i].downloads <= rawData[i - 1].downloads)
     /\ (i < Len(rawData) => rawData[i].downloads >= rawData[i + 1].downloads)}

\* C13: strict extractor: rawData is in descending order of timestamp, and
\* validData is exactly its subsequence, in the same order, of the points
\* whose downloads are <= those of the raw point before them and >= those of
\* the raw point after them, whether or not these neighbours are retained;
\* the other points are counted as skipped.
C13_NeighborPolicy ==
  (prog = "strict" /\ pc \in {"growth", "done"}) =>
     /\ \A i \in 1..(Len(rawData) - 1) : rawData[i].timestamp >= rawData[i + 1].timestamp
     /\ Len(validData) = Cardinality(BetweenNeighbors)
     /\ \A i \in BetweenNeighbors :
           validData[Cardinality({j \in BetweenNeighbors : j <= i})] = rawData[i]
     /\ skippedCount = Len(rawData) - Len(validData)

\* C13 witness: two retained points with rejected points between them, the
\* older one with more downloads than the newer one: a running floor would
\* have rejected it.
C13_Witness ==
  /\ prog = "strict" /\ pc = "done"
  /\ \E i, j \in BetweenNeighbors :
        /\ i + 1 < j
        /\ \A k \in (i + 1)..(j - 1) : k \notin BetweenNeighbors
        /\ rawData[j].downloads > rawData[i].downloads


\* The commit the simple extractor's loop is at, its download count and
\* whether its calendar date is in history already.
CandidateDownloads ==
  LET pd == commits[idx].snapshot.pluginData
  IN IF KeyDownloads \in DOMAIN pd THEN pd[KeyDownloads] ELSE 0

CandidateIsDuplicate ==
  \E k \in 1..Len(history) : history[k].date = commits[idx].timestamp \div 86400000

\* The step appends an entry for the candidate to history.
CandidateAccepted ==
  /\ Len(history') = Len(history) + 1
  /\ SubSeq(history', 1, Len(history)) = history
  /\ history'[Len(history')].hash = commits[idx].hash
  /\ history'[Len(history')].downloads = CandidateDownloads

\* C14: simple extractor: the first commit in which the plugin exists is
\* accepted whatever its download count; from then on lastValidDownloads is
\* the download count of the entry accepted last and never increases, a
\* candidate whose date is not in history is accepted exactly if its
\* downloads are <= lastValidDownloads, and a rejected or duplicate-date
\* candidate leaves history and lastValidDownloads as they are.
C14_SequentialPolicy ==
  /\ [][(prog = "simple" /\ pc = "loop" /\ IsPresent(commits[idx])) =>
          /\ ~foundFirstEntry =>
                CandidateAccepted /\ lastValidDownloads' = CandidateDownloads
          /\ (foundFirstEntry /\ ~CandidateIsDuplicate) =>
                (CandidateAccepted <=> CandidateDownloads <= lastValidDownloads)
          /\ (foundFirstEntry /\ (CandidateIsDuplicate \/ ~CandidateAccepted)) =>
                UNCHANGED <<history, lastValidDownloads>>
          /\ foundFirstEntry => lastValidDownloads' <= lastValidDownloads
          /\ foundFirstEntry']_vars
  /\ []((prog = "simple" /\ pc \in {"loop", "sort"}) =>
          IF foundFirstEntry
          THEN /\ Len(history) >= 1
               /\ lastValidDownloads = history[Len(history)].downloads
          ELSE history = <<>> /\ \A k \in 1..Len(log) : ~IsPresent(commits[k]))

\* C14 witness: a run whose loop accepted a first entry, skipped a
\* duplicate date, rejected a candidate and accepted another one with the
\* same download count as the entry before it.
C14_Witness ==
  /\ prog = "simple" /\ pc = "sort"
  /\ \E k \in 1..Len(log) : log[k] = "duplicate"
  /\ \E k \in 1..Len(log) : log[k] = "anomaly"
  /\ Len(history) = 2
  /\ history[1].downloads = history[2].downloads


\* The staged pipeline: the raw data points, one per commit in which the
\* plugin exists, up to the commit at which the extraction stops.
RECURSIVE RawPoints(_)
RawPoints(cs) ==
  IF cs = <<>> \/ Head(cs).snapshot.kind = "absent" THEN <<>>
  ELSE (IF IsPresent(Head(cs)) THEN <<SimpleEntry(Head(cs))>> ELSE <<>>)
       \o RawPoints(Tail(cs))

\* Stage 1, the sequential anomaly filter: the first point is accepted, a
\* later one exactly if its downloads are <= those of the point accepted last.
RECURSIVE SequentialFilter(_, _, _)
SequentialFilter(points, seeded, lastValid) ==
  IF points = <<>> THEN <<>>
  ELSE IF ~seeded \/ Head(points).downloads <= lastValid
       THEN <<Head(points)>> \o SequentialFilter(Tail(points), TRUE, Head(points).downloads)
       ELSE SequentialFilter(Tail(points), seeded, lastValid)

\* Stage 2, the deduplication by calendar day: the first point of a day stays.
DedupByDay(points) ==
  LET first(k) == \A j \in 1..(k - 1) : points[j].date # points[k].date
      F[k \in 0..Len(points)] ==
        IF k = 0 THEN <<>> ELSE IF first(k) THEN Append(F[k - 1], points[k]) ELSE F[k - 1]
  IN F[Len(points)]

\* Stage 3, the ascending order of date (stable).
StagedHistory(cs) ==
  LET kept == DedupByDay(SequentialFilter(RawPoints(cs), FALSE, 0))
  IN StableSort(kept, [k \in 1..Len(kept) |-> kept[k].date])

\* C15 as claimed: for a newest-first commit list the history the simple
\* extractor writes is what the staged pipeline gives: the sequential anomaly
\* filter over all raw points, then the deduplication by day, then the sort.
C15_StagedPipeline ==
  (prog = "simple" /\ written /\ NewestFirst(commits)) =>
     outputFile = StagedHistory(commits)


\* The download counts never rise along the sequence (newest to oldest).
NonIncreasing(s) == \A i \in 1..(Len(s) - 1) : s[i] >= s[i + 1]

\* The download counts of the commits processed so far in which the plugin
\* exists, in processing order.
ProcessedDownloads ==
  LET present == SelectSeq(SubSeq(commits, 1, Len(log)), IsPresent)
  IN [k \in 1..Len(present) |-> DownloadsOf(present[k].snapshot.pluginData)]

\* C16: when the raw series read newest to oldest has non-increasing download
\* counts, equal counts allowed, the strict extractor retains every raw point
\* and counts no skipped one, and the simple extractor rejects no point as
\* anomalous: every point is accepted or is a same-day duplicate.
C16_NoFalseRejections ==
  /\ (/\ prog = "strict" /\ pc \in {"growth", "done"}
      /\ NonIncreasing([k \in 1..Len(rawData) |-> rawData[k].downloads])) =>
        validData = rawData /\ skippedCount = 0
  /\ (prog = "simple" /\ NonIncreasing(ProcessedDownloads)) =>
        \A k \in 1..Len(log) :
           IsPresent(commits[k]) =>
              /\ log[k] \in {"first", "added", "duplicate"}
              /\ log[k] # "duplicate" =>
                    \E p \in 1..Len(history) : history[p].hash = commits[k].hash

\* C16 witness: the strict extractor has retained a raw series of several
\* points holding both an equal pair and a decrease.
C16_Witness ==
  /\ prog = "strict" /\ pc = "done"
  /\ Len(rawData) >= 3 /\ validData = rawData
  /\ \E i \in 1..(Len(rawData) - 1) : rawData[i].downloads = rawData[i + 1].downloads
  /\ \E i \in 1..(Len(rawData) - 1) : rawData[i].downloads > rawData[i + 1].downloads


(***************************************************************************)
(* Termination.  Each script is one sequential process that runs unless it *)
(* has ended: a step that is possible is eventually taken.                 *)
(***************************************************************************)
\* Termination rests on the loop's control flow, so the runs are taken over
\* the commit lists with two download counts on two days.
ControlLists ==
  {cs \in CommitLists :
     \A i \in 1..Len(cs) :
        /\ cs[i].timestamp \in {0, MsPerDay}
        /\ IsPresent(cs[i]) => DownloadsOf(cs[i].snapshot.pluginData) \in {0, 1}}

InitFair == Init /\ commits \in ControlLists

SpecFair == InitFair /\ [][Next]_vars /\ WF_vars(Next)

\* The number of commits the loop attempts: up to and including the first
\* one whose snapshot parses and lacks the plugin, all of them if there is
\* none.
AttemptCount ==
  IF \E j \in 1..Len(commits) : IsStop(j)
  THEN CHOOSE j \in 1..Len(commits) : IsStop(j)
  ELSE Len(commits)

\* C17: every extractor run ends: the loop fetches the commits one by one in
\* list order, each at most once and a failing one never again, so at most
\* as many fetches as commits; then the filter and the write run, once.
C17_Terminates ==
  /\ <>(pc = "done" /\ written /\ Len(fetched) = AttemptCount)
  /\ [](/\ Len(fetched) <= Len(commits)
        /\ \A k \in 1..Len(fetched) : fetched[k] = commits[k].hash)
  /\ [][/\ fetched' # fetched => (pc = "loop" /\ Len(fetched') = Len(fetched) + 1)
        /\ pc = "loop" => fetched' # fetched
        /\ pc # "loop" => UNCHANGED <<rawData, history>> \/ pc = "sort"
        /\ pc \in {"growth", "done"} => UNCHANGED <<rawData, validData, skippedCount, history>>
        /\ written => UNCHANGED <<written, outputFile>>
        /\ written' # written => pc' = "done"
        /\ pc # "done"]_vars

\* C17 witness: a finished run that fetched every commit of a list of the
\* greatest length, one of them failing and the last one without the plugin.
C17_Witness ==
  /\ pc = "done" /\ written
  /\ Len(commits) >= 4 /\ Len(fetched) = Len(commits)
  /\ \E k \in 1..Len(log) : log[k] = "error"
  /\ log[Len(log)] = "absent"


\* C18 as claimed: strict extractor: the history written has exactly one
\* entry for every retained point: as many entries as validData has points,
\* each point's entry holding that point's downloads.
C18_OneEntryPerPoint ==
  (prog = "strict" /\ written) =>
     /\ Len(outputFile) = Len(validData)
     /\ \A i \in 1..Len(validData) :
           /\ ObjHas(outputFile, validData[i].timestamp)
           /\ ObjGet(outputFile, validData[i].timestamp).data[KeyDownloads]
                = validData[i].downloads


(***************************************************************************)
(* Properties of the chart generator run on the strict extractor's file.   *)
(***************************************************************************)
\* The chart generator has computed its release markers.
ReleasesComputed ==
  prog = "chart" /\ pc \in {"derive", "roll7", "roll30", "html", "done"}

\* C19 as claimed: on a history the strict extractor wrote, every release
\* marker names a version key of a plugin record, never downloads, updated or
\* dailyGrowth, and every version has exactly one marker, at the oldest data
\* point that contains it.
C19_ReleaseMarkers ==
  ReleasesComputed =>
     /\ \A r \in versionReleases :
           /\ r.version \notin {KeyDownloads, KeyUpdated, KeyDailyGrowth}
           /\ \E k \in 1..Len(commits) :
                 /\ IsPresent(commits[k])
                 /\ r.version \in DOMAIN commits[k].snapshot.pluginData
           /\ r.version \in DOMAIN dataPoints[r.index].versions
           /\ \A j \in 1..(r.index - 1) : r.version \notin DOMAIN dataPoints[j].versions
     /\ \A r, s \in versionReleases : r.version = s.version => r = s
     /\ \A k \in 1..Len(dataPoints) : \A v \in DOMAIN dataPoints[k].versions :
           \E r \in versionReleases : r.version = v


\* C20 as claimed: on every history file the strict extractor wrote, the one
\* of no entries included, the chart generator does not end before it has
\* written the HTML report: it neither exits on its input check nor fails.
C20_ChartCompletes ==
  (prog = "chart" /\ written /\ pc # "start") =>
     /\ pc \notin {"exit", "failed"}
     /\ exitCode = 0
     /\ pc = "done" => htmlWritten


\* C21 as claimed: on a history the strict extractor wrote, the growth rate
\* the chart generator computes for every data point after the oldest
\* (derivativeData) is the dailyGrowth the extractor stored for that point.
C21_GrowthAgreement ==
  (prog = "chart" /\ pc \in {"roll7", "roll30", "html", "done"}) =>
     /\ Len(derivativeData) = Len(historicalData) - 1
     /\ \A k \in 1..Len(derivativeData) :
           /\ derivativeData[k].x = historicalData[k + 1].value.date
           /\ derivativeData[k].y = historicalData[k + 1].value.data[KeyDailyGrowth]

=============================================================================
